---- MODULE Spec2Model ----
(***************************************************************************)
(* Model of the virtual file system of src/vfs: the SuperBlock allocator,  *)
(* the Disk slot store and the FileSystem namespace engine.                *)
(*                                                                         *)
(* Strings are sequences of one-character strings, so that splitting a     *)
(* path on "/", stripping it and slicing data into chunks are computed the *)
(* way the code computes them.  An Inode object is the content of its slot *)
(* in disk.inodes: Disk.read_inode returns the stored object itself, so a  *)
(* mutation of a fetched inode is a mutation of the slot.  Timestamps and  *)
(* permission bits are carried by the code but never read by it; they are  *)
(* left out.                                                               *)
(***************************************************************************)
EXTENDS Integers, Sequences, FiniteSets, TLC

\* Geometry of the volume (SuperBlock.__init__ parameters), scaled down.
max_inodes == 3
max_blocks == 2
block_size == 2

VARIABLES inodes, free_inodes, free_blocks, blocks, cwd, last

vars == <<inodes, free_inodes, free_blocks, blocks, cwd, last>>

InodeIds == 0 .. (max_inodes - 1)
BlockIds == 0 .. (max_blocks - 1)

\* Python's None, as the parent of the root and as an empty inode slot.
NoParent == -1
NoChildren == <<>>
None == [name |-> <<>>, type |-> "none", parent |-> NoParent, size |-> 0,
         blocks |-> <<>>, children |-> NoChildren]

\* Inode(name, inode_type, parent): size 0, no blocks, no children.
Inode(name, inode_type, parent) ==
    [name |-> name, type |-> inode_type, parent |-> parent, size |-> 0,
     blocks |-> <<>>, children |-> NoChildren]

--------------------------------------------------------------------------
\* Strings

\* str.split("/"): the parts between separators, empty parts kept.
RECURSIVE SplitFrom(_, _, _)
SplitFrom(s, i, cur) ==
    IF i > Len(s) THEN <<cur>>
    ELSE IF s[i] = "/" THEN <<cur>> \o SplitFrom(s, i + 1, <<>>)
    ELSE SplitFrom(s, i + 1, Append(cur, s[i]))

Split(s) == SplitFrom(s, 1, <<>>)

\* str.strip(): leading and trailing blanks removed.
RECURSIVE LStrip(_)
LStrip(s) == IF s # <<>> /\ Head(s) = " " THEN LStrip(Tail(s)) ELSE s

RECURSIVE RStrip(_)
RStrip(s) ==
    IF s # <<>> /\ s[Len(s)] = " " THEN RStrip(SubSeq(s, 1, Len(s) - 1)) ELSE s

Strip(s) == RStrip(LStrip(s))

StartsWithSlash(s) == s # <<>> /\ Head(s) = "/"

ContainsSlash(s) == \E i \in 1 .. Len(s) : s[i] = "/"

\* Slice with the end one short: data[i : i + n - 1].
SliceShort(data, i, n) ==
    SubSeq(data, i + 1, IF i + n - 1 < Len(data) THEN i + n - 1 ELSE Len(data))

\* data[i : i + n + 1]: a chunk one character too long.
SliceLong(data, i, n) ==
    SubSeq(data, i + 1, IF i + n + 1 < Len(data) THEN i + n + 1 ELSE Len(data))

\* data[i : i + n] with a 0-based start, as Python slices it.
Slice(data, i, n) ==
    SubSeq(data, i + 1, IF i + n < Len(data) THEN i + n ELSE Len(data))

RECURSIVE Join(_, _)
Join(parts, i) ==
    IF i > Len(parts) THEN <<>>
    ELSE IF i = Len(parts) THEN parts[i]
    ELSE parts[i] \o <<"/">> \o Join(parts, i + 1)

--------------------------------------------------------------------------
\* The volume as a value: what the operations read and return.

Cur == [inodes |-> inodes, free_inodes |-> free_inodes,
        free_blocks |-> free_blocks, blocks |-> blocks, cwd |-> cwd]

\* SuperBlock.get_free_inode_count / get_free_block_count
get_free_inode_count(fs) == Cardinality({i \in InodeIds : fs.free_inodes[i]})
get_free_block_count(fs) == Cardinality({b \in BlockIds : fs.free_blocks[b]})

\* The last free index of a presence list, -1 when none.
LastFree(free, ids) ==
    IF \E i \in ids : free[i]
    THEN CHOOSE i \in ids : free[i] /\ \A j \in ids : free[j] => j <= i
    ELSE -1

\* The first free index of a presence list, -1 when none (RuntimeError).
FirstFree(free, ids) ==
    IF \E i \in ids : free[i]
    THEN CHOOSE i \in ids : free[i] /\ \A j \in ids : free[j] => i <= j
    ELSE -1

alloc_inode(fs) == FirstFree(fs.free_inodes, InodeIds)
alloc_block(fs) == FirstFree(fs.free_blocks, BlockIds)

\* SuperBlock.free_inode / free_block: out-of-range indices are ignored.
free_inode(fs, i) ==
    IF i \in InodeIds
    THEN [fs EXCEPT !.free_inodes = [@ EXCEPT ![i] = TRUE]]
    ELSE fs

free_block(fs, b) ==
    IF b \in BlockIds
    THEN [fs EXCEPT !.free_blocks = [@ EXCEPT ![b] = TRUE]]
    ELSE fs

RECURSIVE free_all(_, _, _)
free_all(fs, bs, i) ==
    IF i > Len(bs) THEN fs ELSE free_all(free_block(fs, bs[i]), bs, i + 1)

\* The result of an operation: the volume it leaves, how it ended, its value.
Ret(fs, err, value) == [fs |-> fs, err |-> err, value |-> value]
Ok(fs, value) == Ret(fs, "ok", value)

--------------------------------------------------------------------------
\* FileSystem._resolve

\* _resolve that takes ".." for "." (stays where it is).
RECURSIVE ResolvePartsNoUp(_, _, _, _)
ResolvePartsNoUp(fs, parts, i, curr) ==
    IF i > Len(parts) THEN [err |-> "ok", id |-> curr]
    ELSE IF parts[i] \in {<<>>, <<".">>, <<".", ".">>}
    THEN ResolvePartsNoUp(fs, parts, i + 1, curr)
    ELSE IF curr \notin InodeIds THEN [err |-> "IndexError", id |-> curr]
    ELSE IF fs.inodes[curr] = None THEN [err |-> "AttributeError", id |-> curr]
    ELSE IF fs.inodes[curr].type # "dir" THEN [err |-> "NotADirectory", id |-> curr]
    ELSE IF parts[i] \notin DOMAIN fs.inodes[curr].children
    THEN [err |-> "FileNotFound", id |-> curr]
    ELSE ResolvePartsNoUp(fs, parts, i + 1, fs.inodes[curr].children[parts[i]])

\* _resolve that looks a named segment up without asking what kind of
\* inode it is applied to.
RECURSIVE ResolvePartsAnyKind(_, _, _, _)
ResolvePartsAnyKind(fs, parts, i, curr) ==
    IF i > Len(parts) THEN [err |-> "ok", id |-> curr]
    ELSE IF parts[i] \in {<<>>, <<".">>} THEN ResolvePartsAnyKind(fs, parts, i + 1, curr)
    ELSE IF curr \notin InodeIds THEN [err |-> "IndexError", id |-> curr]
    ELSE IF fs.inodes[curr] = None THEN [err |-> "AttributeError", id |-> curr]
    ELSE IF parts[i] = <<".", ".">>
    THEN ResolvePartsAnyKind(fs, parts, i + 1,
             IF fs.inodes[curr].parent \in {NoParent, 0} THEN 0
             ELSE fs.inodes[curr].parent)
    ELSE IF parts[i] \notin DOMAIN fs.inodes[curr].children
    THEN [err |-> "FileNotFound", id |-> curr]
    ELSE ResolvePartsAnyKind(fs, parts, i + 1, fs.inodes[curr].children[parts[i]])

RECURSIVE ResolveParts(_, _, _, _)
ResolveParts(fs, parts, i, curr) ==
    IF i > Len(parts) THEN [err |-> "ok", id |-> curr]
    ELSE IF parts[i] \in {<<>>, <<".">>} THEN ResolveParts(fs, parts, i + 1, curr)
    ELSE IF curr \notin InodeIds THEN [err |-> "IndexError", id |-> curr]
    ELSE IF fs.inodes[curr] = None THEN [err |-> "AttributeError", id |-> curr]
    ELSE IF parts[i] = <<".", ".">>
    THEN ResolveParts(fs, parts, i + 1,
             IF fs.inodes[curr].parent \in {NoParent, 0} THEN 0
             ELSE fs.inodes[curr].parent)
    ELSE IF fs.inodes[curr].type # "dir" THEN [err |-> "NotADirectory", id |-> curr]
    ELSE IF parts[i] \notin DOMAIN fs.inodes[curr].children
    THEN [err |-> "FileNotFound", id |-> curr]
    ELSE ResolveParts(fs, parts, i + 1, fs.inodes[curr].children[parts[i]])

_resolve(fs, path) ==
    IF path = <<"/">> THEN [err |-> "ok", id |-> 0]
    ELSE ResolveParts(fs, Split(Strip(path)), 1,
                      IF StartsWithSlash(path) THEN 0 ELSE fs.cwd)

--------------------------------------------------------------------------
\* Directory maps (dict name -> inode id)

PutChild(children, name, id) ==
    [n \in (DOMAIN children) \cup {name} |-> IF n = name THEN id ELSE children[n]]

DelChild(children, name) ==
    [n \in (DOMAIN children) \ {name} |-> children[n]]

InvalidName(name) == ContainsSlash(name) \/ name \in {<<>>, <<".">>, <<".", ".">>}

\* The child ids of a directory as a list.  The code walks them in the
\* dict's insertion order; each child's removal touches only its own
\* subtree and its entry in the parent, so the order does not show in the
\* result and the list is taken in ascending id order.
RECURSIVE SortedIds(_)
SortedIds(S) ==
    IF S = {} THEN <<>>
    ELSE LET m == CHOOSE i \in S : \A j \in S : i <= j
         IN <<m>> \o SortedIds(S \ {m})

ChildIds(children) == SortedIds({children[n] : n \in DOMAIN children})

--------------------------------------------------------------------------
\* FileSystem.mkdir / FileSystem.create

\* mkdir / create without the duplicate-name check.
NewEntryNoDuplicateCheck(fs, name, inode_type) ==
    IF fs.cwd \notin InodeIds THEN Ret(fs, "IndexError", <<>>)
    ELSE IF fs.inodes[fs.cwd] = None THEN Ret(fs, "AttributeError", <<>>)
    ELSE IF fs.inodes[fs.cwd].type # "dir" THEN Ret(fs, "NotADirectory", <<>>)
    ELSE IF InvalidName(name) THEN Ret(fs, "InvalidName", <<>>)
    ELSE IF alloc_inode(fs) = -1 THEN Ret(fs, "DiskFull", <<>>)
    ELSE LET inode_id == alloc_inode(fs)
             parent == [fs.inodes[fs.cwd] EXCEPT
                          !.children = PutChild(@, name, inode_id)]
         IN Ok([fs EXCEPT
                  !.free_inodes = [@ EXCEPT ![inode_id] = FALSE],
                  !.inodes = [@ EXCEPT ![inode_id] = Inode(name, inode_type, fs.cwd),
                                       ![fs.cwd] = parent]],
               <<>>)

\* mkdir / create that take the inode slot before they validate the name.
NewEntryAllocFirst(fs, name, inode_type) ==
    LET inode_id == alloc_inode(fs)
        taken == IF inode_id = -1 THEN fs
                 ELSE [fs EXCEPT !.free_inodes = [@ EXCEPT ![inode_id] = FALSE]]
    IN
    IF fs.cwd \notin InodeIds THEN Ret(fs, "IndexError", <<>>)
    ELSE IF fs.inodes[fs.cwd] = None THEN Ret(fs, "AttributeError", <<>>)
    ELSE IF fs.inodes[fs.cwd].type # "dir" THEN Ret(fs, "NotADirectory", <<>>)
    ELSE IF inode_id = -1 THEN Ret(fs, "DiskFull", <<>>)
    ELSE IF InvalidName(name) THEN Ret(taken, "InvalidName", <<>>)
    ELSE IF name \in DOMAIN fs.inodes[fs.cwd].children THEN Ret(taken, "FileExists", <<>>)
    ELSE Ok([taken EXCEPT
               !.inodes = [@ EXCEPT ![inode_id] = Inode(name, inode_type, fs.cwd),
                                    ![fs.cwd] = [@ EXCEPT !.children =
                                                   PutChild(@, name, inode_id)]]],
            <<>>)

NewEntry(fs, name, inode_type) ==
    IF fs.cwd \notin InodeIds THEN Ret(fs, "IndexError", <<>>)
    ELSE IF fs.inodes[fs.cwd] = None THEN Ret(fs, "AttributeError", <<>>)
    ELSE IF fs.inodes[fs.cwd].type # "dir" THEN Ret(fs, "NotADirectory", <<>>)
    ELSE IF InvalidName(name) THEN Ret(fs, "InvalidName", <<>>)
    ELSE IF name \in DOMAIN fs.inodes[fs.cwd].children THEN Ret(fs, "FileExists", <<>>)
    ELSE IF alloc_inode(fs) = -1 THEN Ret(fs, "DiskFull", <<>>)
    ELSE LET inode_id == alloc_inode(fs)
             parent == [fs.inodes[fs.cwd] EXCEPT
                          !.children = PutChild(@, name, inode_id)]
         IN Ok([fs EXCEPT
                  !.free_inodes = [@ EXCEPT ![inode_id] = FALSE],
                  !.inodes = [@ EXCEPT ![inode_id] = Inode(name, inode_type, fs.cwd),
                                       ![fs.cwd] = parent]],
               <<>>)

mkdir(fs, name) == NewEntry(fs, name, "dir")
create(fs, name) == NewEntry(fs, name, "file")

--------------------------------------------------------------------------
\* FileSystem.write

\* The allocation loop: for i in range(0, len(data), block_size).
RECURSIVE WriteLoop(_, _, _, _)
WriteLoop(fs, inode_id, data, i) ==
    IF i >= Len(data)
    THEN Ok([fs EXCEPT !.inodes = [@ EXCEPT ![inode_id] =
                                      [@ EXCEPT !.size = Len(data)]]], <<>>)
    ELSE IF alloc_block(fs) = -1
    THEN Ret([free_all(fs, fs.inodes[inode_id].blocks, 1) EXCEPT
                 !.inodes = [@ EXCEPT ![inode_id] = [@ EXCEPT !.blocks = <<>>]]],
             "DiskFull", <<>>)
    ELSE LET block == alloc_block(fs)
             chunk == Slice(data, i, block_size)
             taken == [fs EXCEPT !.free_blocks = [@ EXCEPT ![block] = FALSE]]
         IN IF Len(chunk) > block_size THEN Ret(taken, "ValueError", <<>>)
            ELSE WriteLoop(
                   [taken EXCEPT
                      !.blocks = [@ EXCEPT ![block] = chunk],
                      !.inodes = [@ EXCEPT ![inode_id] =
                                    [@ EXCEPT !.blocks = Append(@, block)]]],
                   inode_id, data, i + block_size)

\* write that clears the block list without freeing the blocks.
WriteFreedLeaks(fs, inode_id) ==
    [fs EXCEPT !.inodes = [@ EXCEPT ![inode_id] = [@ EXCEPT !.blocks = <<>>]]]

\* write that keeps the blocks the file holds (append, not overwrite).
WriteFreedKeeps(fs, inode_id) == fs

\* The existing blocks are freed and the list cleared before the capacity
\* check (lines 146-156).
WriteFreed(fs, inode_id) ==
    [free_all(fs, fs.inodes[inode_id].blocks, 1) EXCEPT
        !.inodes = [@ EXCEPT ![inode_id] = [@ EXCEPT !.blocks = <<>>]]]

blocks_needed(data) == (Len(data) + block_size - 1) \div block_size

write(fs, name, data) ==
    LET r == _resolve(fs, name) IN
    IF r.err # "ok" THEN Ret(fs, r.err, <<>>)
    ELSE IF r.id \notin InodeIds THEN Ret(fs, "IndexError", <<>>)
    ELSE IF fs.inodes[r.id] = None THEN Ret(fs, "AttributeError", <<>>)
    ELSE IF fs.inodes[r.id].type # "file" THEN Ret(fs, "IsADirectory", <<>>)
    ELSE LET freed == WriteFreed(fs, r.id) IN
         IF blocks_needed(data) > get_free_block_count(freed)
         THEN Ret(freed, "DiskFull", <<>>)
         ELSE WriteLoop(freed, r.id, data, 0)

--------------------------------------------------------------------------
\* FileSystem.read

RECURSIVE ReadBlocks(_, _, _)
ReadBlocks(fs, bs, i) ==
    IF i > Len(bs) THEN [err |-> "ok", content |-> <<>>]
    ELSE IF bs[i] \notin BlockIds THEN [err |-> "IndexError", content |-> <<>>]
    ELSE LET rest == ReadBlocks(fs, bs, i + 1)
         IN [err |-> rest.err, content |-> fs.blocks[bs[i]] \o rest.content]

read(fs, name) ==
    LET r == _resolve(fs, name) IN
    IF r.err # "ok" THEN Ret(fs, r.err, <<>>)
    ELSE IF r.id \notin InodeIds THEN Ret(fs, "IndexError", <<>>)
    ELSE IF fs.inodes[r.id] = None THEN Ret(fs, "AttributeError", <<>>)
    ELSE IF fs.inodes[r.id].type # "file" THEN Ret(fs, "IsADirectory", <<>>)
    ELSE LET c == ReadBlocks(fs, fs.inodes[r.id].blocks, 1)
         IN Ret(fs, c.err, IF c.err = "ok" THEN c.content ELSE <<>>)

--------------------------------------------------------------------------
\* FileSystem._rm_recursive

\* _rm_recursive that leaves the entry in the parent's children.
DetachNot(fs, inode) == Ok(fs, <<>>)

\* Lines 237-242: the inode's entry is taken out of its parent's children.
Detach(fs, inode) ==
    IF inode.parent = NoParent THEN Ok(fs, <<>>)
    ELSE IF inode.parent \notin InodeIds THEN Ret(fs, "IndexError", <<>>)
    ELSE IF fs.inodes[inode.parent] # None
            /\ inode.name \in DOMAIN fs.inodes[inode.parent].children
    THEN Ok([fs EXCEPT !.inodes = [@ EXCEPT ![inode.parent] =
                          [@ EXCEPT !.children = DelChild(@, inode.name)]]], <<>>)
    ELSE Ok(fs, <<>>)

\* Lines 244-246: the slot is marked free and emptied.
\* The release that marks the slot free and leaves the inode in the storage.
ReleaseKeepsInode(fs, inode_id) == free_inode(fs, inode_id)

Release(fs, inode_id) ==
    [free_inode(fs, inode_id) EXCEPT !.inodes = [@ EXCEPT ![inode_id] = None]]

\* _rm_recursive that does not descend into the children.
RmChildrenNot(fs, kids, i) == Ok(fs, <<>>)

RECURSIVE _rm_recursive(_, _)
RECURSIVE RmChildren(_, _, _)

RmChildren(fs, kids, i) ==
    IF i > Len(kids) THEN Ok(fs, <<>>)
    ELSE LET r == _rm_recursive(fs, kids[i])
         IN IF r.err # "ok" THEN r ELSE RmChildren(r.fs, kids, i + 1)

\* name, parent and blocks of the inode being removed are not touched by the
\* removal of its children, so they are read from the record fetched first.
_rm_recursive(fs, inode_id) ==
    IF inode_id \notin InodeIds THEN Ret(fs, "IndexError", <<>>)
    ELSE IF fs.inodes[inode_id] = None THEN Ret(fs, "AttributeError", <<>>)
    ELSE LET inode == fs.inodes[inode_id]
             kids == IF inode.type = "dir" THEN ChildIds(inode.children) ELSE <<>>
             down == RmChildren(fs, kids, 1)
         IN IF down.err # "ok" THEN down
            ELSE LET det == Detach(free_all(down.fs, inode.blocks, 1), inode)
                 IN IF det.err # "ok" THEN det
                    ELSE Ok(Release(det.fs, inode_id), <<>>)

--------------------------------------------------------------------------
\* FileSystem.rm

\* Lines 261-271: the non-recursive branch.
\* The non-recursive removal that leaves the blocks of the file taken.
RmSingleLeaks(fs, inode_id) ==
    LET inode == fs.inodes[inode_id] IN
    IF inode.parent = NoParent THEN Ret(fs, "TypeError", <<>>)
    ELSE IF inode.parent \notin InodeIds THEN Ret(fs, "IndexError", <<>>)
    ELSE IF fs.inodes[inode.parent] = None
    THEN Ok(Release(fs, inode_id), <<>>)
    ELSE IF inode.name \notin DOMAIN fs.inodes[inode.parent].children
    THEN Ret(fs, "KeyError", <<>>)
    ELSE Ok(Release(
              [fs EXCEPT !.inodes = [@ EXCEPT ![inode.parent] =
                  [@ EXCEPT !.children = DelChild(@, inode.name)]]],
              inode_id), <<>>)

RmSingle(fs, inode_id) ==
    LET inode == fs.inodes[inode_id]
        freed == free_all(fs, inode.blocks, 1)
    IN IF inode.parent = NoParent THEN Ret(freed, "TypeError", <<>>)
       ELSE IF inode.parent \notin InodeIds THEN Ret(freed, "IndexError", <<>>)
       ELSE IF freed.inodes[inode.parent] = None
       THEN Ok(Release(freed, inode_id), <<>>)
       ELSE IF inode.name \notin DOMAIN freed.inodes[inode.parent].children
       THEN Ret(freed, "KeyError", <<>>)
       ELSE Ok(Release(
                 [freed EXCEPT !.inodes = [@ EXCEPT ![inode.parent] =
                     [@ EXCEPT !.children = DelChild(@, inode.name)]]],
                 inode_id), <<>>)

\* rm that recognises the root by the spelling of the path only.
rmRootBySpelling(fs, path, recursive) ==
    LET r == _resolve(fs, path) IN
    IF r.err # "ok" THEN Ret(fs, r.err, <<>>)
    ELSE IF path = <<"/">> THEN Ret(fs, "CannotRemoveRoot", <<>>)
    ELSE IF r.id \notin InodeIds THEN Ret(fs, "IndexError", <<>>)
    ELSE IF fs.inodes[r.id] = None THEN Ret(fs, "AttributeError", <<>>)
    ELSE IF fs.inodes[r.id].type = "dir"
            /\ DOMAIN fs.inodes[r.id].children # {} /\ ~recursive
    THEN Ret(fs, "DirectoryNotEmpty", <<>>)
    ELSE IF recursive THEN _rm_recursive(fs, r.id)
    ELSE RmSingle(fs, r.id)

\* rm that does not look at the children of a directory.
rmNoEmptyCheck(fs, path, recursive) ==
    LET r == _resolve(fs, path) IN
    IF r.err # "ok" THEN Ret(fs, r.err, <<>>)
    ELSE IF r.id = 0 \/ path = <<"/">> THEN Ret(fs, "CannotRemoveRoot", <<>>)
    ELSE IF r.id \notin InodeIds THEN Ret(fs, "IndexError", <<>>)
    ELSE IF fs.inodes[r.id] = None THEN Ret(fs, "AttributeError", <<>>)
    ELSE IF recursive THEN _rm_recursive(fs, r.id)
    ELSE RmSingle(fs, r.id)

rm(fs, path, recursive) ==
    LET r == _resolve(fs, path) IN
    IF r.err # "ok" THEN Ret(fs, r.err, <<>>)
    ELSE IF r.id = 0 \/ path = <<"/">> THEN Ret(fs, "CannotRemoveRoot", <<>>)
    ELSE IF r.id \notin InodeIds THEN Ret(fs, "IndexError", <<>>)
    ELSE IF fs.inodes[r.id] = None THEN Ret(fs, "AttributeError", <<>>)
    ELSE IF fs.inodes[r.id].type = "dir"
            /\ DOMAIN fs.inodes[r.id].children # {} /\ ~recursive
    THEN Ret(fs, "DirectoryNotEmpty", <<>>)
    ELSE IF recursive THEN _rm_recursive(fs, r.id)
    ELSE RmSingle(fs, r.id)

--------------------------------------------------------------------------
\* FileSystem.cd / ls / pwd / stat / du

\* cd that moves the cursor before it looks at the kind of the target.
cdBeforeCheck(fs, path) ==
    LET r == _resolve(fs, path) IN
    IF r.err # "ok" THEN Ret(fs, r.err, <<>>)
    ELSE IF r.id \notin InodeIds THEN Ret(fs, "IndexError", <<>>)
    ELSE IF fs.inodes[r.id] = None THEN Ret(fs, "AttributeError", <<>>)
    ELSE IF fs.inodes[r.id].type # "dir"
    THEN Ret([fs EXCEPT !.cwd = r.id], "NotADirectory", <<>>)
    ELSE Ok([fs EXCEPT !.cwd = r.id], <<>>)

cd(fs, path) ==
    LET r == _resolve(fs, path) IN
    IF r.err # "ok" THEN Ret(fs, r.err, <<>>)
    ELSE IF r.id \notin InodeIds THEN Ret(fs, "IndexError", <<>>)
    ELSE IF fs.inodes[r.id] = None THEN Ret(fs, "AttributeError", <<>>)
    ELSE IF fs.inodes[r.id].type # "dir" THEN Ret(fs, "NotADirectory", <<>>)
    ELSE Ok([fs EXCEPT !.cwd = r.id], <<>>)

\* The value is the set of the names; the order of the list is left out.
ls(fs) ==
    IF fs.cwd \notin InodeIds THEN Ret(fs, "IndexError", <<>>)
    ELSE IF fs.inodes[fs.cwd] = None THEN Ret(fs, "AttributeError", <<>>)
    ELSE IF fs.inodes[fs.cwd].type # "dir" THEN Ret(fs, "NotADirectory", <<>>)
    ELSE Ok(fs, DOMAIN fs.inodes[fs.cwd].children)

\* The walk up the parent links; parts holds the names root-first.  A walk
\* of more than max_inodes steps is on a cycle and never returns ("Hang").
RECURSIVE PwdWalk(_, _, _, _)
PwdWalk(fs, curr, parts, steps) ==
    IF curr = 0 THEN Ok(fs, <<"/">> \o Join(parts, 1))
    ELSE IF steps > max_inodes THEN Ret(fs, "Hang", <<>>)
    ELSE IF curr = NoParent THEN Ret(fs, "TypeError", <<>>)
    ELSE IF curr \notin InodeIds THEN Ret(fs, "IndexError", <<>>)
    ELSE IF fs.inodes[curr] = None THEN Ret(fs, "AttributeError", <<>>)
    ELSE PwdWalk(fs, fs.inodes[curr].parent,
                 <<fs.inodes[curr].name>> \o parts, steps + 1)

pwd(fs) == PwdWalk(fs, fs.cwd, <<>>, 0)

stat(fs, path) ==
    LET r == _resolve(fs, path) IN
    IF r.err # "ok" THEN Ret(fs, r.err, <<>>)
    ELSE IF r.id \notin InodeIds THEN Ret(fs, "IndexError", <<>>)
    ELSE IF fs.inodes[r.id] = None THEN Ret(fs, "AttributeError", <<>>)
    ELSE Ok(fs, [name |-> fs.inodes[r.id].name, type |-> fs.inodes[r.id].type,
                 size |-> fs.inodes[r.id].size,
                 blocks |-> Len(fs.inodes[r.id].blocks)])

du(fs) ==
    Ok(fs, [total_inodes |-> max_inodes,
            free_inodes |-> get_free_inode_count(fs),
            used_inodes |-> max_inodes - get_free_inode_count(fs),
            total_blocks |-> max_blocks,
            free_blocks |-> get_free_block_count(fs),
            used_blocks |-> max_blocks - get_free_block_count(fs),
            block_size |-> block_size])

--------------------------------------------------------------------------
\* The inputs the operations are called with.

Names == {<<"a">>, <<"b">>}
BadNames == {<<>>, <<".">>, <<".", ".">>, <<"a", "/", "b">>}

Paths ==
    { <<>>, <<"/">>, <<".", ".">>,
      <<"a">>, <<"b">>, <<"/", "a">>,
      <<"a", "/", "b">>, <<"/", "a", "/", "b">>,
      <<"/", "a", "/", ".", ".">> }

\* Data by length: empty, a single partial block, the whole volume, and
\* one byte more than the volume holds.
Pattern(n) == [i \in 1 .. n |-> IF i % 3 = 2 THEN "y" ELSE "x"]

DataLens == {0, 1, max_blocks * block_size, max_blocks * block_size + 1}

Data == {Pattern(n) : n \in DataLens}

--------------------------------------------------------------------------
\* The state machine.  The caller (the shell's loop) makes one call at a
\* time: a call action runs a public operation of FileSystem to its end,
\* and Return hands the outcome to the caller, who may then call again.
\* last records the call just made, how it ended, what it returned and the
\* volume it was made on; between calls it keeps only prev, a note of a
\* write that has just succeeded (the inode written, the free-block count
\* before it and the number of blocks the file held before it).

NoWrite == [id |-> -1, free |-> 0, held |-> 0]

NoCall == [op |-> "none", arg |-> <<>>, data |-> <<>>, recursive |-> FALSE,
           err |-> "ok", value |-> <<>>, pre |-> <<>>, prev |-> NoWrite]

AtPrompt == last.op = "none"

\* main.init_filesystem
Init ==
    /\ inodes = [i \in InodeIds |->
                   IF i = 0 THEN Inode(<<"/">>, "dir", NoParent) ELSE None]
    /\ free_inodes = [i \in InodeIds |-> i # 0]
    /\ free_blocks = [b \in BlockIds |-> TRUE]
    /\ blocks = [b \in BlockIds |-> <<>>]
    /\ cwd = 0
    /\ last = NoCall

Call(op, arg, data, recursive, r) ==
    /\ AtPrompt
    /\ inodes' = r.fs.inodes
    /\ free_inodes' = r.fs.free_inodes
    /\ free_blocks' = r.fs.free_blocks
    /\ blocks' = r.fs.blocks
    /\ cwd' = r.fs.cwd
    /\ last' = [op |-> op, arg |-> arg, data |-> data, recursive |-> recursive,
                err |-> r.err, value |-> r.value, pre |-> Cur,
                prev |-> last.prev]

Mkdir == \E name \in Names \cup BadNames :
            Call("mkdir", name, <<>>, FALSE, mkdir(Cur, name))

Create == \E name \in Names \cup BadNames :
            Call("create", name, <<>>, FALSE, create(Cur, name))

Write == \E path \in Paths, data \in Data :
            Call("write", path, data, FALSE, write(Cur, path, data))

Read == \E path \in Paths : Call("read", path, <<>>, FALSE, read(Cur, path))

Ls == Call("ls", <<>>, <<>>, FALSE, ls(Cur))

Cd == \E path \in Paths : Call("cd", path, <<>>, FALSE, cd(Cur, path))

Rm == \E path \in Paths, recursive \in BOOLEAN :
            Call("rm", path, <<>>, recursive, rm(Cur, path, recursive))

Pwd == Call("pwd", <<>>, <<>>, FALSE, pwd(Cur))

Stat == \E path \in Paths : Call("stat", path, <<>>, FALSE, stat(Cur, path))

Du == Call("du", <<>>, <<>>, FALSE, du(Cur))

\* The inode a successful call's path named, resolved on the volume the
\* call was made on.
Target(l) == _resolve(l.pre, l.arg).id

WriteNote(l) ==
    IF l.op = "write" /\ l.err = "ok"
    THEN [id |-> Target(l), free |-> get_free_block_count(l.pre),
          held |-> Len(l.pre.inodes[Target(l)].blocks)]
    ELSE NoWrite

Return ==
    /\ ~AtPrompt
    /\ last' = [NoCall EXCEPT !.prev = WriteNote(last)]
    /\ UNCHANGED <<inodes, free_inodes, free_blocks, blocks, cwd>>

Next == \/ Mkdir \/ Create \/ Write \/ Read \/ Ls
        \/ Cd \/ Rm \/ Pwd \/ Stat \/ Du \/ Return

Spec == Init /\ [][Next]_vars

--------------------------------------------------------------------------
\* Vocabulary of the properties

FSErrors == {"FileNotFound", "FileExists", "NotADirectory", "IsADirectory",
             "DirectoryNotEmpty", "InvalidName", "CannotRemoveRoot", "DiskFull"}

Allocated(fs, i) == fs.inodes[i] # None
Files(fs) == {i \in InodeIds : Allocated(fs, i) /\ fs.inodes[i].type = "file"}
Dirs(fs) == {i \in InodeIds : Allocated(fs, i) /\ fs.inodes[i].type = "dir"}

RECURSIVE SumLen(_, _, _)
SumLen(fs, bs, i) ==
    IF i > Len(bs) THEN 0 ELSE Len(fs.blocks[bs[i]]) + SumLen(fs, bs, i + 1)

\* ceil(n / d), by its definition rather than by the code's arithmetic.
CeilDiv(n, d) == CHOOSE k \in 0 .. n : k * d >= n /\ (k = 0 \/ (k - 1) * d < n)

\* The call just returned was op and ended with err.
Did(op, err) == last.op = op /\ last.err = err

\* The volume is at the prompt or is not the one the call just returned was
\* made on.  A call leaves its volume to the prompt, so what holds of these
\* volumes holds of the volume in every state.
Settled == AtPrompt \/ Cur # last.pre

\* The block lists of the allocated File inodes, one after the other.
RECURSIVE ListedFrom(_, _)
ListedFrom(fs, i) ==
    IF i >= max_inodes THEN <<>>
    ELSE (IF i \in Files(fs) THEN fs.inodes[i].blocks ELSE <<>>)
         \o ListedFrom(fs, i + 1)

Listed(fs) == ListedFrom(fs, 0)

--------------------------------------------------------------------------
\* C1: a write that fails with DiskFull leaves the free-block count as it
\* was before the call, also when the file already held blocks.
C1_DiskFullKeepsFreeCount ==
    Did("write", "DiskFull") =>
        get_free_block_count(Cur) = get_free_block_count(last.pre)

\* C2: every allocated File inode has size equal to the sum of the payload
\* lengths of its blocks, so stat(f).size = len(read(f)).
C2_SizeIsPayloadLength ==
    \A i \in Files(Cur) :
        inodes[i].size = SumLen(Cur, inodes[i].blocks, 1)

\* C3: after a successful write(f, d), read(f) returns exactly d.
C3_RoundTrip ==
    Did("write", "ok") =>
        /\ read(Cur, last.arg).err = "ok"
        /\ read(Cur, last.arg).value = last.data

\* C3 witness: data filling every block of the volume has been written over
\* a file that held other content.
C3_Witness ==
    /\ Did("write", "ok")
    /\ Len(last.data) = max_blocks * block_size
    /\ last.pre.inodes[Target(last)].blocks # <<>>
    /\ read(Cur, last.arg).value = last.data

\* C4: every call succeeds or fails with one of the filesystem error kinds.
C4_OnlyFilesystemErrors == last.err \in {"ok"} \cup FSErrors

\* C5: a block is marked used iff it is listed exactly once, in the block
\* list of one allocated File inode: every listed block is a used slot, no
\* block is listed twice (in one file or in two), every used block is listed.
C5_BlockAccounting ==
    Settled =>
        LET L == Listed(Cur) IN
        /\ \A k \in 1 .. Len(L) : L[k] \in BlockIds /\ ~free_blocks[L[k]]
        /\ \A j, k \in 1 .. Len(L) : j # k => L[j] # L[k]
        /\ \A b \in BlockIds : ~free_blocks[b] => \E k \in 1 .. Len(L) : L[k] = b

\* C5 witness: a write has failed with DiskFull on a file that held blocks,
\* while another file holds blocks too.
C5_Witness ==
    /\ Did("write", "DiskFull")
    /\ last.pre.inodes[Target(last)].blocks # <<>>
    /\ \E i \in Files(Cur) : inodes[i].blocks # <<>>

\* The inodes of the subtree rooted at t, found by the parent links.
RECURSIVE Under(_, _, _, _)
Under(fs, i, t, fuel) ==
    \/ i = t
    \/ /\ fuel > 0
       /\ i \in InodeIds
       /\ Allocated(fs, i)
       /\ Under(fs, fs.inodes[i].parent, t, fuel - 1)

Subtree(fs, t) ==
    {i \in InodeIds : Allocated(fs, i) /\ Under(fs, i, t, max_inodes)}

\* The entries (inode, position) of the block lists of a set of inodes.
BlockEntries(fs, S) ==
    {<<i, k>> \in S \X (1 .. max_blocks + 1) : k <= Len(fs.inodes[i].blocks)}

BlocksOf(fs, S) == {fs.inodes[e[1]].blocks[e[2]] : e \in BlockEntries(fs, S)}

\* C6: a successful recursive rm frees exactly the inodes of the target's
\* subtree and the blocks its files hold, and nothing outside the subtree.
C6_RecursiveRmAccounting ==
    (Did("rm", "ok") /\ last.recursive) =>
        LET pre == last.pre
            t == Target(last)
            sub == Subtree(pre, t)
            held == BlocksOf(pre, sub)
            up == pre.inodes[t].parent
        IN /\ t # 0
           /\ get_free_inode_count(Cur)
                = get_free_inode_count(pre) + Cardinality(sub)
           /\ get_free_block_count(Cur)
                = get_free_block_count(pre) + Cardinality(BlockEntries(pre, sub))
           /\ \A i \in sub : free_inodes[i] /\ ~Allocated(Cur, i)
           /\ \A b \in held : free_blocks[b]
           /\ \A i \in InodeIds \ sub :
                /\ free_inodes[i] = pre.free_inodes[i]
                /\ Allocated(Cur, i) <=> Allocated(pre, i)
                /\ i # up => inodes[i] = pre.inodes[i]
           /\ inodes[up] = [pre.inodes[up] EXCEPT
                               !.children = DelChild(@, pre.inodes[t].name)]
           /\ \A b \in BlockIds \ held : free_blocks[b] = pre.free_blocks[b]

\* C6 witness: a directory holding a file with content has been removed
\* recursively.
C6_Witness ==
    /\ Did("rm", "ok") /\ last.recursive
    /\ Cardinality(Subtree(last.pre, Target(last))) >= 2
    /\ BlockEntries(last.pre, Subtree(last.pre, Target(last))) # {}

\* C7: after two consecutive successful writes to a file that held no
\* blocks, the file holds exactly the blocks the second data needs and the
\* free-block count is the count before the first write less that number.
C7_Overwrite ==
    (Did("write", "ok") /\ last.prev.id = Target(last) /\ last.prev.held = 0) =>
        /\ Len(inodes[Target(last)].blocks) = CeilDiv(Len(last.data), block_size)
        /\ get_free_block_count(Cur)
             = last.prev.free - CeilDiv(Len(last.data), block_size)

\* C7 witness: the second write needed fewer blocks than the first had
\* taken.
C7_Witness ==
    /\ Did("write", "ok") /\ last.prev.id = Target(last) /\ last.prev.held = 0
    /\ Len(last.pre.inodes[Target(last)].blocks)
         > CeilDiv(Len(last.data), block_size)
    /\ Len(last.data) > 0

\* C8: every allocated inode but the root is listed under its own name by
\* its parent, an allocated directory, and every entry of a directory names
\* an allocated inode whose parent and name agree with the entry.
C8_TreeConsistency ==
    Settled =>
        /\ \A i \in InodeIds \ {0} : Allocated(Cur, i) =>
              /\ inodes[i].parent \in Dirs(Cur)
              /\ inodes[i].name \in DOMAIN inodes[inodes[i].parent].children
              /\ inodes[inodes[i].parent].children[inodes[i].name] = i
        /\ \A d \in Dirs(Cur) : \A n \in DOMAIN inodes[d].children :
              /\ inodes[d].children[n] \in InodeIds \ {0}
              /\ Allocated(Cur, inodes[d].children[n])
              /\ inodes[inodes[d].children[n]].parent = d
              /\ inodes[inodes[d].children[n]].name = n

\* C8 witness: a removal has succeeded and left inodes other than the root.
C8_Witness ==
    /\ Did("rm", "ok")
    /\ \E i \in InodeIds \ {0} : Allocated(Cur, i)

\* Further spellings of paths, for the properties of rm and _resolve that
\* are checked on the operators themselves.
MorePaths ==
    Paths \cup { <<".">>, <<"/", "/">>, <<"/", ".", ".">>,
                 <<".", "/", ".", ".">>, <<" ", "/">>,
                 <<"a", "/", ".", ".">>, <<".", ".", "/", ".", ".">> }

\* C9: slot 0 is always used and holds the root directory, alloc_inode never
\* hands it out, and every rm of a path that resolves to inode 0 fails with
\* the cannot-remove-root error and changes nothing (for the call just made,
\* and for every spelling of MorePaths the caller could use next).
C9_RootInvariant ==
    /\ ~free_inodes[0]
    /\ inodes[0].type = "dir"
    /\ inodes[0].parent = NoParent
    /\ alloc_inode(Cur) # 0
    /\ AtPrompt =>
          \A path \in MorePaths, recursive \in BOOLEAN :
              (_resolve(Cur, path) = [err |-> "ok", id |-> 0]) =>
                  rm(Cur, path, recursive) = Ret(Cur, "CannotRemoveRoot", <<>>)
    /\ (last.op = "rm" /\ _resolve(last.pre, last.arg) = [err |-> "ok", id |-> 0]) =>
          last.err = "CannotRemoveRoot" /\ Cur = last.pre

\* C9 witness: a recursive rm of ".." has been refused at the root of a
\* volume that holds other inodes.
C9_Witness ==
    /\ Did("rm", "CannotRemoveRoot")
    /\ last.recursive
    /\ last.arg = <<".", ".">>
    /\ \E i \in InodeIds \ {0} : Allocated(Cur, i)

\* C10: create(x) and mkdir(x) in a directory that has a child named x fail
\* with AlreadyExists (FileExists), allocate no inode and leave the one
\* entry x on its original inode.
C10_DuplicateName ==
    (/\ last.op \in {"mkdir", "create"}
     /\ last.pre.cwd \in Dirs(last.pre)
     /\ last.arg \in DOMAIN last.pre.inodes[last.pre.cwd].children) =>
        /\ last.err = "FileExists"
        /\ free_inodes = last.pre.free_inodes
        /\ \A i \in InodeIds : Allocated(Cur, i) <=> Allocated(last.pre, i)
        /\ DOMAIN inodes[cwd].children
             = DOMAIN last.pre.inodes[last.pre.cwd].children
        /\ inodes[cwd].children[last.arg]
             = last.pre.inodes[last.pre.cwd].children[last.arg]
        /\ inodes[inodes[cwd].children[last.arg]]
             = last.pre.inodes[last.pre.inodes[last.pre.cwd].children[last.arg]]

\* C10 witness: create(x) has been refused where x names a directory.
C10_Witness ==
    /\ Did("create", "FileExists")
    /\ last.pre.inodes[last.pre.inodes[last.pre.cwd].children[last.arg]].type = "dir"

\* The paths of the properties of _resolve: MorePaths and a path that ends
\* in a blank.
UpPaths == MorePaths \cup { <<"a", " ">> }

\* p + "/" + n + "/.."
DownUp(p, n) == p \o <<"/">> \o n \o <<"/", ".", ".">>

\* "..", "../..", ... with k segments.
MaxUp == 3

RECURSIVE Ups(_)
Ups(k) == IF k <= 1 THEN <<".", ".">> ELSE <<".", ".", "/">> \o Ups(k - 1)

\* p/n/.. resolves to what p resolves to, for every child n of the
\* directory p resolves to, for the paths p of P.
DownUpIsIdentity(P) ==
    \A p \in P :
        LET r == _resolve(Cur, p) IN
        (r.err = "ok" /\ r.id \in Dirs(Cur)) =>
            \A n \in DOMAIN inodes[r.id].children :
                _resolve(Cur, DownUp(p, n)) = r

\* ".." segments at the root stay at the root.
NoEscapeAboveRoot ==
    \A k \in 1 .. MaxUp :
        /\ _resolve(Cur, <<"/">> \o Ups(k)) = [err |-> "ok", id |-> 0]
        /\ cwd = 0 => _resolve(Cur, Ups(k)) = [err |-> "ok", id |-> 0]

\* C11 as stated: for every path p that resolves to a directory d and every
\* child name n of d, resolve(p + "/" + n + "/..") equals resolve(p), and
\* ".." segments at the root resolve to the root.
C11_ParentSegment_AsStated ==
    AtPrompt => DownUpIsIdentity(UpPaths) /\ NoEscapeAboveRoot

\* C11 amended: the same for every non-empty path p that does not end in
\* a blank (p + "/..." is absolute when p is empty, and the blank that
\* strip() drops from the end of p stays inside p + "/...").
C11_ParentSegment ==
    AtPrompt =>
        /\ DownUpIsIdentity({p \in UpPaths : p # <<>> /\ p[Len(p)] # " "})
        /\ NoEscapeAboveRoot

\* C11 witness: a path resolves to a directory other than the root that has
\* children, and going down to each child and up again comes back to it.
C11_Witness ==
    /\ AtPrompt
    /\ \E p \in UpPaths :
          /\ p # <<>> /\ p[Len(p)] # " "
          /\ _resolve(Cur, p).err = "ok"
          /\ _resolve(Cur, p).id \in Dirs(Cur) \ {0}
          /\ DOMAIN inodes[_resolve(Cur, p).id].children # {}
          /\ \A n \in DOMAIN inodes[_resolve(Cur, p).id].children :
                _resolve(Cur, DownUp(p, n)) = _resolve(Cur, p)

\* The call just returned was a non-recursive rm of a path that resolved to
\* a Directory with at least one child.
RmOfNonEmptyDir ==
    /\ last.op = "rm" /\ ~last.recursive
    /\ _resolve(last.pre, last.arg).err = "ok"
    /\ Target(last) \in Dirs(last.pre)
    /\ DOMAIN last.pre.inodes[Target(last)].children # {}

\* A successful non-recursive rm was of a File or of an empty Directory.
RmOnlyFilesAndEmptyDirs ==
    (Did("rm", "ok") /\ ~last.recursive) =>
        /\ Allocated(last.pre, Target(last))
        /\ \/ Target(last) \in Files(last.pre)
           \/ DOMAIN last.pre.inodes[Target(last)].children = {}

\* C12 as stated: non-recursive rm of a Directory that has at least one
\* child fails with DirectoryNotEmpty on every code path and leaves the
\* whole volume unchanged; non-recursive rm succeeds only on files and
\* empty directories.
C12_NonEmptyDir_AsStated ==
    /\ RmOfNonEmptyDir => (last.err = "DirectoryNotEmpty" /\ Cur = last.pre)
    /\ RmOnlyFilesAndEmptyDirs

\* C12 amended: the same for a Directory other than the root (rm of the
\* root fails with "Cannot remove root directory" whatever it holds).
C12_NonEmptyDir ==
    /\ (RmOfNonEmptyDir /\ Target(last) # 0) =>
            (last.err = "DirectoryNotEmpty" /\ Cur = last.pre)
    /\ RmOnlyFilesAndEmptyDirs

\* C12 witness: a non-recursive rm of a non-empty directory other than the
\* root has failed with DirectoryNotEmpty.
C12_Witness ==
    RmOfNonEmptyDir /\ Target(last) # 0 /\ Did("rm", "DirectoryNotEmpty")

\* C13: cd(path) changes cwd only when it succeeds: when path does not
\* resolve or resolves to a File (NotADirectory), cd fails and the volume,
\* cwd included, is as before; on success cwd is resolve(path) as evaluated
\* before the call and nothing else has changed.
C13_CdFrame ==
    last.op = "cd" =>
        LET r == _resolve(last.pre, last.arg) IN
        /\ r.err # "ok" => last.err = r.err
        /\ (r.err = "ok" /\ r.id \in Files(last.pre)) =>
                last.err = "NotADirectory"
        /\ last.err # "ok" => Cur = last.pre
        /\ last.err = "ok" =>
                /\ r.err = "ok" /\ r.id \in Dirs(last.pre)
                /\ Cur = [last.pre EXCEPT !.cwd = r.id]

\* C13 witness: cd to a File has failed with NotADirectory and cwd is what
\* it was, away from the root.
C13_Witness ==
    /\ Did("cd", "NotADirectory")
    /\ _resolve(last.pre, last.arg).err = "ok"
    /\ Target(last) \in Files(last.pre)
    /\ cwd = last.pre.cwd /\ cwd # 0

\* C14: mkdir(name) and create(name) validate before mutating.  When they
\* fail with InvalidName (the name is empty, ".", ".." or contains "/") or
\* with DiskFull (no inode slot is free), the free-inode set, every inode
\* slot and every children map are unchanged.  When they succeed, exactly
\* one inode slot becomes used, it holds a new inode of the requested kind
\* with parent = cwd, size 0 and no blocks, and exactly one entry is added
\* to the children of cwd.
C14_ValidateBeforeMutate ==
    last.op \in {"mkdir", "create"} =>
        LET pre == last.pre
            name == last.arg
            kind == IF last.op = "mkdir" THEN "dir" ELSE "file"
        IN
        /\ last.err = "InvalidName" =>
              /\ \/ name \in {<<>>, <<".">>, <<".", ".">>}
                 \/ \E k \in 1 .. Len(name) : name[k] = "/"
              /\ Cur = pre
        /\ last.err = "DiskFull" =>
              /\ \A i \in InodeIds : ~pre.free_inodes[i]
              /\ Cur = pre
        /\ last.err = "ok" =>
              \E i \in InodeIds :
                 /\ pre.free_inodes[i] /\ ~free_inodes[i]
                 /\ \A j \in InodeIds \ {i} : free_inodes[j] = pre.free_inodes[j]
                 /\ inodes[i].name = name /\ inodes[i].type = kind
                 /\ inodes[i].parent = pre.cwd /\ inodes[i].size = 0
                 /\ inodes[i].blocks = <<>> /\ inodes[i].children = <<>>
                 /\ \A j \in InodeIds \ {i, pre.cwd} : inodes[j] = pre.inodes[j]
                 /\ name \notin DOMAIN pre.inodes[pre.cwd].children
                 /\ inodes[pre.cwd] =
                      [pre.inodes[pre.cwd] EXCEPT !.children = PutChild(@, name, i)]
                 /\ cwd = pre.cwd /\ blocks = pre.blocks
                 /\ free_blocks = pre.free_blocks

\* C14 witness: create of a valid, unused name has failed with DiskFull in a
\* directory other than the root, and the volume is as before.
C14_Witness ==
    /\ Did("create", "DiskFull")
    /\ last.arg \in Names
    /\ last.arg \notin DOMAIN last.pre.inodes[last.pre.cwd].children
    /\ cwd # 0 /\ Cur = last.pre

\* Every id the volume stores is a slot of the storage, and every block
\* holds at most block_size characters.
IdsInRange ==
    /\ cwd \in InodeIds
    /\ \A i \in InodeIds :
          Allocated(Cur, i) =>
             /\ inodes[i].parent \in InodeIds \cup {NoParent}
             /\ \A n \in DOMAIN inodes[i].children :
                   inodes[i].children[n] \in InodeIds
             /\ \A k \in 1 .. Len(inodes[i].blocks) :
                   inodes[i].blocks[k] \in BlockIds
    /\ \A b \in BlockIds : Len(blocks[b]) <= block_size

\* C15: no operation of the namespace engine calls Disk.read_inode,
\* write_inode, read_block or write_block with a slot id out of range
\* (IndexError), or Disk.write_block with a payload longer than block_size
\* (ValueError); every id the volume stores is in range.
C15_StorageGuards ==
    /\ last.err \notin {"IndexError", "ValueError"}
    /\ Settled => IdsInRange

\* C15 witness: a write has filled every block of the volume, to the file
\* in the last inode slot.
C15_Witness ==
    /\ Did("write", "ok")
    /\ Target(last) = max_inodes - 1
    /\ get_free_block_count(Cur) = 0
    /\ Len(inodes[Target(last)].blocks) = max_blocks
    /\ \A b \in BlockIds : Len(blocks[b]) = block_size

\* The call just returned was a mkdir or create of a valid name that cwd,
\* a Directory, did not hold: one that reached alloc_inode.
ReachedAllocInode ==
    /\ last.op \in {"mkdir", "create"}
    /\ last.pre.cwd \in Dirs(last.pre)
    /\ ~InvalidName(last.arg)
    /\ last.arg \notin DOMAIN last.pre.inodes[last.pre.cwd].children

\* The blocks a write may take: those free before it and those the file
\* held before it.
Avail(l) ==
    {b \in BlockIds :
        \/ l.pre.free_blocks[b]
        \/ \E k \in 1 .. Len(l.pre.inodes[Target(l)].blocks) :
              l.pre.inodes[Target(l)].blocks[k] = b}

\* C16: alloc_inode and alloc_block return the smallest index marked free
\* and mark only that index used; they fail exactly when no index is free
\* and then leave the free set as it was.  Seen through mkdir/create (one
\* inode) and write (the blocks of the new content, in order).
C16_LowestIndexAllocation ==
    /\ ReachedAllocInode =>
          /\ last.err \in {"ok", "DiskFull"}
          /\ last.err = "DiskFull" <=> \A i \in InodeIds : ~last.pre.free_inodes[i]
          /\ last.err = "DiskFull" => free_inodes = last.pre.free_inodes
          /\ last.err = "ok" =>
                \E i \in InodeIds :
                   /\ last.pre.free_inodes[i]
                   /\ \A j \in InodeIds : j < i => ~last.pre.free_inodes[j]
                   /\ free_inodes = [last.pre.free_inodes EXCEPT ![i] = FALSE]
                   /\ inodes[last.pre.cwd].children[last.arg] = i
    /\ Did("write", "ok") =>
          LET new == inodes[Target(last)].blocks IN
          /\ \A k \in 1 .. Len(new) :
                /\ new[k] \in Avail(last)
                /\ \A b \in Avail(last) :
                      b < new[k] => \E m \in 1 .. k - 1 : new[m] = b
                /\ \A m \in 1 .. k - 1 : new[m] < new[k]
          /\ free_blocks =
                [b \in BlockIds |->
                    b \in Avail(last) /\ \A k \in 1 .. Len(new) : new[k] # b]
    /\ Settled =>
          /\ (alloc_inode(Cur) = -1) <=> (get_free_inode_count(Cur) = 0)
          /\ (alloc_block(Cur) = -1) <=> (get_free_block_count(Cur) = 0)

\* C16 witness: a mkdir or create has taken a freed slot below a slot
\* still in use.
C16_Witness ==
    /\ ReachedAllocInode /\ last.err = "ok"
    /\ \E i, j \in InodeIds :
          /\ i < j
          /\ last.pre.free_inodes[i] /\ ~free_inodes[i]
          /\ ~last.pre.free_inodes[j]

\* File f of volume fs holds d in chunks: ceil(len(d) / block_size) blocks,
\* the i-th is d[i*block_size : (i+1)*block_size], every block but the last
\* holds block_size characters and the last between 1 and block_size, and
\* the size is len(d).
ChunkLayout(fs, f, d) ==
    LET bl == fs.inodes[f].blocks
        L == Len(d)
    IN
    /\ Len(bl) = CeilDiv(L, block_size)
    /\ fs.inodes[f].size = L
    /\ \A i \in 0 .. Len(bl) - 1 :
          /\ fs.blocks[bl[i + 1]] =
                [k \in 1 .. (IF (i + 1) * block_size < L
                             THEN block_size ELSE L - i * block_size)
                    |-> d[i * block_size + k]]
          /\ i < Len(bl) - 1 => Len(fs.blocks[bl[i + 1]]) = block_size
          /\ i = Len(bl) - 1 => Len(fs.blocks[bl[i + 1]]) \in 1 .. block_size

\* The layout after every successful write of the model, and of a write of
\* one full block and one character more to every path at the prompt.
LayoutHolds ==
    /\ Did("write", "ok") => ChunkLayout(Cur, Target(last), last.data)
    /\ AtPrompt =>
          \A p \in Paths :
             LET w == write(Cur, p, Pattern(block_size + 1)) IN
             w.err = "ok" =>
                ChunkLayout(w.fs, _resolve(Cur, p).id, Pattern(block_size + 1))

\* The call just returned was a successful non-recursive rm of the file the
\* call before it had written.
RmAfterWrite ==
    Did("rm", "ok") /\ ~last.recursive /\ last.prev.id = Target(last)

\* C17 as stated: chunk layout after a successful write, and a following
\* non-recursive rm(f) returns the free-block count to its value before
\* the write.
C17_ChunkLayout_AsStated ==
    /\ LayoutHolds
    /\ RmAfterWrite => get_free_block_count(Cur) = last.prev.free

\* C17 amended: chunk layout after a successful write, and a following
\* non-recursive rm(f) leaves the free-block count at its value before the
\* write plus the number of blocks f held before the write.
C17_ChunkLayout ==
    /\ LayoutHolds
    /\ RmAfterWrite =>
          get_free_block_count(Cur) = last.prev.free + last.prev.held

\* C17 witness: a file that held blocks was overwritten with data filling
\* every block of the volume and then removed; the free-block count is
\* above its value before the write.
C17_Witness ==
    /\ RmAfterWrite
    /\ last.prev.held > 0
    /\ Len(last.pre.inodes[Target(last)].blocks) = max_blocks
    /\ ChunkLayout(last.pre, Target(last), Pattern(max_blocks * block_size))
    /\ get_free_block_count(Cur) = last.prev.free + last.prev.held

\* The paths a segment is appended to: not empty and with no blank at
\* either end, so that the segments of p + "/" + n are those of p and n.
SegmentPaths ==
    {p \in UpPaths : p # <<>> /\ p[1] # " " /\ p[Len(p)] # " "}

\* A named segment applied to a File fails with NotADirectory and one
\* missing from a Directory fails with FileNotFound, after a path and from
\* cwd.
NamedSegmentFailures ==
    /\ \A p \in SegmentPaths, n \in Names :
          LET r == _resolve(Cur, p)
              q == _resolve(Cur, p \o <<"/">> \o n)
          IN r.err = "ok" =>
                /\ r.id \in Files(Cur) => q.err = "NotADirectory"
                /\ (r.id \in Dirs(Cur) /\ n \notin DOMAIN inodes[r.id].children)
                      => q.err = "FileNotFound"
    /\ \A n \in Names :
          /\ cwd \in Files(Cur) => _resolve(Cur, n).err = "NotADirectory"
          /\ (cwd \in Dirs(Cur) /\ n \notin DOMAIN inodes[cwd].children)
                => _resolve(Cur, n).err = "FileNotFound"

\* Empty and "." segments, at the end and at the start of a path, do not
\* change what it resolves to.
EmptyAndDotSegments ==
    \A p \in SegmentPaths :
       LET r == _resolve(Cur, p) IN
       /\ _resolve(Cur, p \o <<"/">>) = r
       /\ _resolve(Cur, p \o <<"/", ".">>) = r
       /\ _resolve(Cur, p \o <<"/", "/", ".", "/">>) = r
       /\ IF StartsWithSlash(p)
          THEN /\ _resolve(Cur, <<"/">> \o p) = r
               /\ _resolve(Cur, <<"/", ".">> \o p) = r
          ELSE /\ _resolve(Cur, <<".", "/">> \o p) = r
               /\ _resolve(Cur, <<".", "/", "/">> \o p) = r

\* C18: a named segment applied to a File inode fails with NotADirectory
\* and one missing from the current Directory's children fails with
\* FileNotFound; empty and "." segments do not change the result; and
\* resolution changes nothing: a call that fails with NotADirectory or
\* FileNotFound leaves the volume, cwd included, unchanged, and so do stat
\* and read.
C18_ResolutionFailures ==
    /\ AtPrompt => (NamedSegmentFailures /\ EmptyAndDotSegments)
    /\ (/\ last.op \in {"cd", "rm", "write", "read", "stat"}
        /\ last.err \in {"NotADirectory", "FileNotFound"}) => Cur = last.pre
    /\ last.op \in {"stat", "read"} => Cur = last.pre

\* C18 witness: stat of a path that names something inside a File has
\* failed with NotADirectory, with cwd away from the root and unchanged.
C18_Witness ==
    /\ Did("stat", "NotADirectory")
    /\ \E f \in Files(last.pre) : _resolve(last.pre, last.arg).id = f
    /\ cwd # 0 /\ Cur = last.pre

\* C19 as stated: after any sequence of operations cwd is the id of an
\* allocated inode slot holding a Directory, and an rm that succeeded did
\* not free the inode cwd refers to or one of its ancestors.
C19_CwdValid ==
    /\ cwd \in Dirs(Cur)
    /\ Did("rm", "ok") =>
          \A i \in InodeIds :
             Under(last.pre, last.pre.cwd, i, max_inodes) => Allocated(Cur, i)

\* C20 as stated: in every reachable state pwd() terminates, with the
\* parent chain from cwd reaching inode 0, returns "/" when cwd is the
\* root, and resolve(pwd()) equals cwd.
C20_PwdRoundTrip ==
    /\ pwd(Cur).err = "ok"
    /\ cwd = 0 => pwd(Cur).value = <<"/">>
    /\ _resolve(Cur, pwd(Cur).value) = [err |-> "ok", id |-> cwd]

\* The inodes reached from the set S by the children maps of the
\* directories, S included.
RECURSIVE ReachedFrom(_, _, _)
ReachedFrom(fs, S, fuel) ==
    LET next == S \cup {c \in InodeIds :
                          \E d \in S \cap Dirs(fs) :
                             \E n \in DOMAIN fs.inodes[d].children :
                                fs.inodes[d].children[n] = c}
    IN IF fuel = 0 \/ next = S THEN S ELSE ReachedFrom(fs, next, fuel - 1)

Reachable(fs) == ReachedFrom(fs, {0}, max_inodes)

\* C21: for every slot i the allocator marks i free iff the storage slot i
\* holds None, and the used_inodes of du() is the number of the inodes
\* reachable from the root, the root included.
C21_AllocatorStorageAgreement ==
    /\ Settled =>
          /\ \A i \in InodeIds : free_inodes[i] <=> (inodes[i] = None)
          /\ du(Cur).value.used_inodes = Cardinality(Reachable(Cur))
    /\ Did("du", "ok") =>
          last.value.used_inodes = Cardinality(Reachable(Cur))

\* C21 witness: du has counted the inodes of a volume in which a removal
\* left a free slot below a used one.
C21_Witness ==
    /\ Did("du", "ok")
    /\ last.value.used_inodes = Cardinality(Reachable(Cur))
    /\ last.value.used_inodes > 1
    /\ \E i, j \in InodeIds :
          i < j /\ free_inodes[i] /\ inodes[i] = None /\ ~free_inodes[j]

====
